---- MODULE Spec2Model ----
(***************************************************************************)
(* Model of api-proxy/cloudflare-worker.js: the admission proxy in front   *)
(* of the generative-AI API.  One serving instance (one isolate): the      *)
(* module-level rateLimitCache is shared by all invocations of fetch(); a  *)
(* second instance, where a claim needs one, has its own Map (peer).       *)
(* JavaScript runs each invocation to completion between its await points, *)
(* so every action below is the code between two awaits of one invocation. *)
(*                                                                         *)
(* JavaScript values are tagged records: [t |-> "null"], [t |-> "undef"],  *)
(* [t |-> "num", v |-> n], [t |-> "str", v |-> <<...>>] (a string is the   *)
(* sequence of its units), [t |-> "arr", v |-> <<...>>], [t |-> "obj",..]. *)
(***************************************************************************)
EXTENDS Integers, Sequences, FiniteSets, Bags, TLC

VARIABLES now, rateLimitCache, inflight, out, solo, window, peer, log, unswept

\* the page of assets/js/script.js: window.__SIMULATION_RUNNING__, the state
\* and the gemini.conversationHistory of each EnvolveAIDemoCoreV2, the chat
\* and the input of the document, the suspended executions of its async
\* methods, and what the last step of the page did
VARIABLES SIMULATION_RUNNING, state, conversationHistory, chatContainer,
          messageInput, calls, did

workerVars == <<now, rateLimitCache, inflight, out, solo, window, peer, log, unswept>>

pageVars == <<SIMULATION_RUNNING, state, conversationHistory, chatContainer,
              messageInput, calls, did>>

vars == <<workerVars, pageVars>>

(***************************************************************************)
(* Bounds of the model                                                     *)
(***************************************************************************)
\* the clock (Date.now(), ms) advances in steps of ClockStep up to MaxNow
ClockStep == 60000
MaxNow == 120000
\* a record's count is not driven beyond MaxCount
MaxCount == 32
\* number of invocations of fetch() suspended at an await at the same time
MaxInFlight == 1
\* the same, where the claim is about concurrent invocations
MaxConcurrent == 2
\* longest request message, in characters
MaxBodyLen == 1002
\* where the clock is followed by the millisecond: how many milliseconds
\* after a multiple of ClockStep
FineSteps == 1
\* number of invocations left suspended where every request is well-formed
\* and no body has arrived yet
MaxWaiting == 64
MaxPending == 2
MaxSent == 11
MaxTurns == 2
MaxAwaited == 1
MaxChat == 4

(***************************************************************************)
(* Program constants                                                       *)
(***************************************************************************)
RATE_LIMIT_REQUESTS == 30
RATE_LIMIT_WINDOW == 60 * 1000
MaxMessageLength == 1000

JNull == [t |-> "null"]
JUndef == [t |-> "undef"]
JNum(n) == [t |-> "num", v |-> n]
JStr(s) == [t |-> "str", v |-> s]
JArr(s) == [t |-> "arr", v |-> s]

ALLOWED_ORIGINS ==
    << JStr(<<"https://", "envolveai.bot">>),
       JStr(<<"https://", "www.envolveai.bot">>),
       JStr(<<"http://", "localhost", ":5500">>),
       JStr(<<"http://", "127.0.0.1", ":5500">>) >>

LoopbackMarker == <<"127.0.0.1">>

(***************************************************************************)
(* JavaScript primitives the handler uses                                  *)
(***************************************************************************)
\* Array.prototype.includes: strict equality with some element
ArrayIncludes(arr, x) == \E i \in 1..Len(arr) : arr[i] = x

\* String.prototype.includes: sub occurs in s as a contiguous run
StringIncludes(s, sub) ==
    \E i \in 1..(Len(s) - Len(sub) + 1) : SubSeq(s, i, i + Len(sub) - 1) = sub

\* origin?.includes(marker): undefined (falsy) when origin is null
OptionalIncludes(origin, sub) ==
    IF origin.t = "str" THEN StringIncludes(origin.v, sub) ELSE FALSE

\* String.prototype.substring(0, n)
Substring0(s, n) == SubSeq(s, 1, IF Len(s) < n THEN Len(s) ELSE n)

\* ToBoolean
Truthy(x) ==
    CASE x.t = "null" -> FALSE
      [] x.t = "undef" -> FALSE
      [] x.t = "num" -> x.v # 0
      [] x.t = "str" -> Len(x.v) > 0
      [] OTHER -> TRUE

\* a || b
OrElse(a, b) == IF Truthy(a) THEN a ELSE b

\* property read body.message: throws a TypeError on null, undefined on a
\* value without that property
Throws(msg) == [t |-> "throw", message |-> msg]
GetMessage(body) ==
    CASE body.t = "null" -> Throws("Cannot read properties of null (reading 'message')")
      [] body.t = "obj" -> body.message
      [] OTHER -> JUndef
GetContents(body) == IF body.t = "obj" THEN body.contents ELSE JUndef

(***************************************************************************)
(* Responses                                                               *)
(***************************************************************************)
Star == JStr(<<"*">>)
NoResp == [t |-> "none"]
NoCall == [t |-> "none"]

\* handleCORS()
handleCORS ==
    [t |-> "response", status |-> 204, body |-> JNull,
     headers |-> [ACAO |-> Star,
                  ACAM |-> "POST, OPTIONS",
                  ACAH |-> "Content-Type",
                  ACMaxAge |-> "86400"]]

\* jsonResponse(data, status = 200, origin = '*')
jsonResponse(data, status, origin) ==
    [t |-> "response", status |-> status, body |-> data,
     headers |-> [ContentType |-> "application/json",
                  ACAO |-> origin,
                  ACAM |-> "POST, OPTIONS",
                  ACAH |-> "Content-Type",
                  XContentTypeOptions |-> "nosniff",
                  XFrameOptions |-> "DENY",
                  XXSSProtection |-> "1; mode=block"]]

(***************************************************************************)
(* The rate limiter.  rateLimitCache is a Map: a function whose domain is  *)
(* the set of keys it holds, each mapped to [count, resetAt].              *)
(***************************************************************************)
RateKey(ip) == <<"rate_">> \o ip

\* no sweep
cleanupRateLimitNone(cache, t) == cache

\* a sweep that deletes a record at the instant of its resetAt already
cleanupRateLimitEager(cache, t) ==
    [k \in {j \in DOMAIN cache : t < cache[j].resetAt} |-> cache[k]]

\* cleanupRateLimit(): delete every record whose resetAt has passed
cleanupRateLimit(cache, t) ==
    [k \in {j \in DOMAIN cache : ~(t > cache[j].resetAt)} |-> cache[k]]

MapSet(cache, key, val) ==
    [k \in DOMAIN cache \cup {key} |-> IF k = key THEN val ELSE cache[k]]

\* checkRateLimit comparing the count before the increment: admits one more
checkRateLimitLate(cache, ip, t) ==
    LET key == RateKey(ip)
        swept == cleanupRateLimit(cache, t)
        fresh == [count |-> 1, resetAt |-> t + RATE_LIMIT_WINDOW]
    IN  IF key \notin DOMAIN swept
          THEN [ok |-> TRUE, cache |-> MapSet(swept, key, fresh)]
        ELSE [ok |-> ~(swept[key].count > RATE_LIMIT_REQUESTS),
              cache |-> MapSet(swept, key, [swept[key] EXCEPT !.count = @ + 1])]

\* checkRateLimit without the sweep and without the reset of an expired window
checkRateLimitNoReset(cache, ip, t) ==
    LET key == RateKey(ip)
    IN  IF key \notin DOMAIN cache
          THEN [ok |-> TRUE,
                cache |-> MapSet(cache, key, [count |-> 1, resetAt |-> t + RATE_LIMIT_WINDOW])]
        ELSE LET rec == [cache[key] EXCEPT !.count = @ + 1]
             IN  [ok |-> ~(rec.count > RATE_LIMIT_REQUESTS),
                  cache |-> MapSet(cache, key, rec)]

\* checkRateLimit with one key for every client
checkRateLimitGlobal(cache, ip, t) ==
    LET key == <<"rate_">>
        swept == cleanupRateLimit(cache, t)
        fresh == [count |-> 1, resetAt |-> t + RATE_LIMIT_WINDOW]
    IN  IF key \notin DOMAIN swept
          THEN [ok |-> TRUE, cache |-> MapSet(swept, key, fresh)]
        ELSE LET rec == [swept[key] EXCEPT !.count = @ + 1]
             IN  [ok |-> ~(rec.count > RATE_LIMIT_REQUESTS),
                  cache |-> MapSet(swept, key, rec)]

\* checkRateLimit that stops counting once the budget is spent
checkRateLimitCapped(cache, ip, t) ==
    LET key == RateKey(ip)
        swept == cleanupRateLimit(cache, t)
        fresh == [count |-> 1, resetAt |-> t + RATE_LIMIT_WINDOW]
    IN  IF key \notin DOMAIN swept
          THEN [ok |-> TRUE, cache |-> MapSet(swept, key, fresh)]
        ELSE IF swept[key].count >= RATE_LIMIT_REQUESTS
          THEN [ok |-> FALSE, cache |-> swept]
        ELSE [ok |-> TRUE,
              cache |-> MapSet(swept, key, [swept[key] EXCEPT !.count = @ + 1])]

\* checkRateLimit starting the window again at every rejection
checkRateLimitExtending(cache, ip, t) ==
    LET key == RateKey(ip)
        swept == cleanupRateLimit(cache, t)
        fresh == [count |-> 1, resetAt |-> t + RATE_LIMIT_WINDOW]
    IN  IF key \notin DOMAIN swept
          THEN [ok |-> TRUE, cache |-> MapSet(swept, key, fresh)]
        ELSE IF swept[key].count + 1 > RATE_LIMIT_REQUESTS
          THEN [ok |-> FALSE,
                cache |-> MapSet(swept, key, [count |-> swept[key].count + 1,
                                              resetAt |-> t + RATE_LIMIT_WINDOW])]
        ELSE [ok |-> TRUE,
              cache |-> MapSet(swept, key, [swept[key] EXCEPT !.count = @ + 1])]

\* checkRateLimit with windows that end at the multiples of the window length
checkRateLimitAligned(cache, ip, t) ==
    LET key == RateKey(ip)
        swept == cleanupRateLimit(cache, t)
        fresh == [count |-> 1,
                  resetAt |-> ((t \div RATE_LIMIT_WINDOW) + 1) * RATE_LIMIT_WINDOW - 1]
    IN  IF key \notin DOMAIN swept
          THEN [ok |-> TRUE, cache |-> MapSet(swept, key, fresh)]
        ELSE LET rec == [swept[key] EXCEPT !.count = @ + 1]
             IN  [ok |-> ~(rec.count > RATE_LIMIT_REQUESTS),
                  cache |-> MapSet(swept, key, rec)]

\* lines 113-140 without the call of cleanupRateLimit at line 118
checkRateLimitNoSweep(cache, ip, t) ==
    LET key == RateKey(ip)
        fresh == [count |-> 1, resetAt |-> t + RATE_LIMIT_WINDOW]
    IN  IF key \notin DOMAIN cache
          THEN [ok |-> TRUE, cache |-> MapSet(cache, key, fresh)]
        ELSE IF t > cache[key].resetAt
          THEN [ok |-> TRUE, cache |-> MapSet(cache, key, fresh)]
        ELSE LET rec == [cache[key] EXCEPT !.count = @ + 1]
             IN  [ok |-> ~(rec.count > RATE_LIMIT_REQUESTS),
                  cache |-> MapSet(cache, key, rec)]

\* checkRateLimit(ip) at Date.now() = t: the value returned and the Map left
checkRateLimit(cache, ip, t) ==
    LET key == RateKey(ip)
        swept == cleanupRateLimit(cache, t)
        fresh == [count |-> 1, resetAt |-> t + RATE_LIMIT_WINDOW]
    IN  IF key \notin DOMAIN swept
          THEN [ok |-> TRUE, cache |-> MapSet(swept, key, fresh)]
        ELSE IF t > swept[key].resetAt
          THEN [ok |-> TRUE, cache |-> MapSet(swept, key, fresh)]
        ELSE LET rec == [swept[key] EXCEPT !.count = @ + 1]
             IN  [ok |-> ~(rec.count > RATE_LIMIT_REQUESTS),
                  cache |-> MapSet(swept, key, rec)]

(***************************************************************************)
(* fetch(request, env, ctx), cut at its await points                       *)
(***************************************************************************)
\* the origin check letting a request without an Origin header through
OriginAllowedOrMissing(origin) ==
    origin.t = "null"
    \/ ArrayIncludes(ALLOWED_ORIGINS, origin) \/ OptionalIncludes(origin, LoopbackMarker)

\* the origin check accepting whatever begins with an entry of the list
OriginAllowedPrefix(origin) ==
    \/ /\ origin.t = "str"
       /\ \E i \in 1..Len(ALLOWED_ORIGINS) :
             /\ Len(ALLOWED_ORIGINS[i].v) <= Len(origin.v)
             /\ SubSeq(origin.v, 1, Len(ALLOWED_ORIGINS[i].v)) = ALLOWED_ORIGINS[i].v
    \/ OptionalIncludes(origin, LoopbackMarker)

\* the origin check of line 35
OriginAllowed(origin) ==
    ArrayIncludes(ALLOWED_ORIGINS, origin) \/ OptionalIncludes(origin, LoopbackMarker)

\* request.headers.get('CF-Connecting-IP') || 'unknown'
ClientIP(ipHeader) == OrElse(ipHeader, JStr(<<"unknown">>)).v

\* the handler running the limiter before it looks at the method
FetchSyncLimiterFirst(cache, method, origin, ipHeader, t) ==
    LET rl == checkRateLimit(cache, ClientIP(ipHeader), t)
    IN  IF method = "OPTIONS" THEN
            [resp |-> handleCORS, cache |-> rl.cache, limited |-> FALSE]
        ELSE IF method # "POST" THEN
            [resp |-> jsonResponse([error |-> "Método não permitido"], 405, Star),
             cache |-> rl.cache, limited |-> FALSE]
        ELSE IF ~OriginAllowed(origin) THEN
            [resp |-> jsonResponse([error |-> "Origem não autorizada"], 403, Star),
             cache |-> rl.cache, limited |-> FALSE]
        ELSE IF ~rl.ok THEN
            [resp |-> jsonResponse(
                 [error |-> "Rate limit excedido. Tente novamente em alguns segundos."],
                 429, Star),
             cache |-> rl.cache, limited |-> TRUE]
        ELSE [resp |-> NoResp, cache |-> rl.cache, limited |-> TRUE]

\* the handler looking at the origin before it looks at the method
FetchSyncOriginFirst(cache, method, origin, ipHeader, t) ==
    IF ~OriginAllowed(origin) THEN
        [resp |-> jsonResponse([error |-> "Origem não autorizada"], 403, Star),
         cache |-> cache, limited |-> FALSE]
    ELSE IF method = "OPTIONS" THEN
        [resp |-> handleCORS, cache |-> cache, limited |-> FALSE]
    ELSE IF method # "POST" THEN
        [resp |-> jsonResponse([error |-> "Método não permitido"], 405, Star),
         cache |-> cache, limited |-> FALSE]
    ELSE LET rl == checkRateLimit(cache, ClientIP(ipHeader), t)
         IN  IF ~rl.ok THEN
                 [resp |-> jsonResponse(
                      [error |-> "Rate limit excedido. Tente novamente em alguns segundos."],
                      429, Star),
                  cache |-> rl.cache, limited |-> TRUE]
             ELSE [resp |-> NoResp, cache |-> rl.cache, limited |-> TRUE]

\* the handler letting the callers without the header past the limiter
FetchSyncUnknownUnlimited(cache, method, origin, ipHeader, t) ==
    IF method = "OPTIONS" THEN
        [resp |-> handleCORS, cache |-> cache, limited |-> FALSE]
    ELSE IF method # "POST" THEN
        [resp |-> jsonResponse([error |-> "Método não permitido"], 405, Star),
         cache |-> cache, limited |-> FALSE]
    ELSE IF ~OriginAllowed(origin) THEN
        [resp |-> jsonResponse([error |-> "Origem não autorizada"], 403, Star),
         cache |-> cache, limited |-> FALSE]
    ELSE IF ~Truthy(ipHeader) THEN
        [resp |-> NoResp, cache |-> cache, limited |-> FALSE]
    ELSE LET rl == checkRateLimit(cache, ClientIP(ipHeader), t)
         IN  IF ~rl.ok THEN
                 [resp |-> jsonResponse(
                      [error |-> "Rate limit excedido. Tente novamente em alguns segundos."],
                      429, Star),
                  cache |-> rl.cache, limited |-> TRUE]
             ELSE [resp |-> NoResp, cache |-> rl.cache, limited |-> TRUE]

\* lines 23-45, up to the first await: the response returned, or NoResp when
\* the invocation goes on to read the body; and the Map left behind
FetchSync(cache, method, origin, ipHeader, t) ==
    IF method = "OPTIONS" THEN
        [resp |-> handleCORS, cache |-> cache, limited |-> FALSE]
    ELSE IF method # "POST" THEN
        [resp |-> jsonResponse([error |-> "Método não permitido"], 405, Star),
         cache |-> cache, limited |-> FALSE]
    ELSE IF ~OriginAllowed(origin) THEN
        [resp |-> jsonResponse([error |-> "Origem não autorizada"], 403, Star),
         cache |-> cache, limited |-> FALSE]
    ELSE LET rl == checkRateLimit(cache, ClientIP(ipHeader), t)
         IN  IF ~rl.ok THEN
                 [resp |-> jsonResponse(
                      [error |-> "Rate limit excedido. Tente novamente em alguns segundos."],
                      429, Star),
                  cache |-> rl.cache, limited |-> TRUE]
             ELSE [resp |-> NoResp, cache |-> rl.cache, limited |-> TRUE]

\* a handler without the try/catch: the error goes on to the runtime
CatchAllRethrow(message) == Throws(message)

\* the catch-all answering a bad request and keeping the error to itself
CatchAllBadRequest(message) ==
    jsonResponse([error |-> "Mensagem inválida"], 400, Star)

\* the 500 of the catch-all, lines 100-106
CatchAll(message) ==
    jsonResponse([error |-> "Erro interno do servidor", message |-> message], 500, Star)

\* line 52: the message is rejected
InvalidMessage(message) == ~Truthy(message) \/ message.t # "str"

\* no bound on the message
SanitizeNothing(s) == s

\* line 57
Sanitize(s) == Substring0(s, MaxMessageLength)

\* the payload built with the generation parameters the caller asks for
GeminiRequestCallerConfig(body, sanitizedMessage) ==
    [contents |-> OrElse(GetContents(body),
                         JArr(<< [parts |-> << [text |-> sanitizedMessage] >>] >>)),
     generationConfig |->
         IF "generationConfig" \in DOMAIN body
           THEN body.generationConfig
           ELSE [temperature |-> "0.7", maxOutputTokens |-> 500,
                 topP |-> "0.95", topK |-> 40]]

\* the payload taking every contents the body has, falsy ones too
GeminiRequestPresent(body, sanitizedMessage) ==
    [contents |-> IF GetContents(body) # JUndef
                    THEN GetContents(body)
                    ELSE JArr(<< [parts |-> << [text |-> sanitizedMessage] >>] >>),
     generationConfig |-> [temperature |-> "0.7", maxOutputTokens |-> 500,
                           topP |-> "0.95", topK |-> 40]]

\* lines 60-70
GeminiRequest(body, sanitizedMessage) ==
    [contents |-> OrElse(GetContents(body),
                         JArr(<< [parts |-> << [text |-> sanitizedMessage] >>] >>)),
     generationConfig |-> [temperature |-> "0.7", maxOutputTokens |-> 500,
                           topP |-> "0.95", topK |-> 40]]

\* lines 49-83, from the body read to the upstream call: the response
\* returned, or the upstream call made.  parsed is the value request.json()
\* resolves with, or Throws(..) when it rejects.
FetchBody(parsed) ==
    IF parsed.t = "throw" THEN [resp |-> CatchAll(parsed.message), call |-> NoCall]
    ELSE LET message == GetMessage(parsed)
         IN  IF message.t = "throw"
               THEN [resp |-> CatchAll(message.message), call |-> NoCall]
             ELSE IF InvalidMessage(message)
               THEN [resp |-> jsonResponse([error |-> "Mensagem inválida"], 400, Star),
                     call |-> NoCall]
             ELSE [resp |-> NoResp,
                   call |-> [t |-> "call",
                             body |-> GeminiRequest(parsed, Sanitize(message.v))]]

\* Response.ok
Ok(status) == status >= 200 /\ status <= 299

\* the error answer handing the upstream's text to the caller
UpstreamErrorLeaking(status, errorText) ==
    jsonResponse([error |-> "Erro ao processar com IA", details |-> errorText],
                 status, Star)

\* lines 87-92: the sanitized error answer; errorText is only logged
UpstreamError(status, errorText) ==
    jsonResponse([error |-> "Erro ao processar com IA",
                  details |-> IF status = 429 THEN "Rate limit da API" ELSE "Erro interno"],
                 status, Star)

\* the success answer sent without the origin argument
SuccessWildcard(geminiData, origin) == jsonResponse(geminiData, 200, Star)

\* lines 95-98
Success(geminiData, origin) == jsonResponse(geminiData, 200, origin)

(***************************************************************************)
(* Inputs                                                                  *)
(***************************************************************************)
Methods == {"OPTIONS", "GET", "POST"}

ListedOrigin == JStr(<<"https://", "envolveai.bot">>)
LoopbackOrigin == JStr(<<"http://", "127.0.0.1", ":3000">>)
EvilOrigin == JStr(<<"https://", "evil.example">>)
\* an origin that begins with an entry of the list
SuffixedOrigin == JStr(<<"https://", "envolveai.bot", ".evil.example">>)
\* JNull: the request carries no Origin header
Origins == {ListedOrigin, LoopbackOrigin, EvilOrigin, SuffixedOrigin, JNull}

IpA == JStr(<<"203.0.113.7">>)
\* JNull: the request carries no CF-Connecting-IP header
IpHeaders == {IpA, JNull}

\* a string of n units that differ from place to place
Text(n) == [i \in 1..n |-> i % 7]

Obj(message, contents) == [t |-> "obj", message |-> message, contents |-> contents]
EmptyObj == Obj(JUndef, JUndef)
History == JArr(<< [role |-> "user", parts |-> << [text |-> Text(3)] >>] >>)

\* a history with a text longer than the bound on the message
LongHistory ==
    JArr(<< [role |-> "user", parts |-> << [text |-> Text(MaxMessageLength + 1)] >>] >>)
\* values of contents: histories, the empty array, and the JSON values that
\* are falsy
ContentsValues == {History, LongHistory, JArr(<< >>), JStr(Text(0)), JNull}

MessageValues ==
    {JUndef, JNull, JNum(12345), EmptyObj, JStr(Text(0)), JStr(Text(2))}
    \cup {JStr(Text(n)) : n \in MaxMessageLength..MaxBodyLen}

\* a body with more properties than the handler reads
CallerConfig == [temperature |-> "2.0", maxOutputTokens |-> 8192,
                 topP |-> "1.0", topK |-> 1]
ObjWithConfig(message, contents) ==
    [t |-> "obj", message |-> message, contents |-> contents,
     generationConfig |-> CallerConfig, model |-> "gemini-2.5-pro"]

\* what request.json() resolves with, or throws
ParseFailure == Throws("Unexpected token < in JSON at position 0")
Bodies ==
    {Obj(m, JUndef) : m \in MessageValues}
    \cup {Obj(m, History) : m \in {JUndef, JStr(Text(2)), JStr(Text(MaxBodyLen))}}
    \cup {ObjWithConfig(JStr(Text(2)), c) : c \in {JUndef, History}}
    \cup {Obj(JStr(Text(2)), c) : c \in ContentsValues}
    \cup {Obj(JStr(Text(MaxBodyLen)), JStr(Text(0)))}
    \cup {JNull, JNum(7), ParseFailure}
ValidBody == Obj(JStr(Text(2)), JUndef)

\* what the upstream fetch resolves with (a status), or throws
TransportFailure == Throws("Network connection lost")
UpstreamStatuses == {200, 400, 429, 503}
\* what geminiResponse.text() resolves with, or throws
ErrorText(v) == [t |-> "text", status |-> 0, v |-> v]
ErrorTexts == {ErrorText("quota exceeded for project 4711"),
               ErrorText("stack trace at generate.cc:88")}
BrokenBody == [t |-> "throw", status |-> 0, message |-> "Network connection lost"]
GeminiData == [candidates |-> << [content |-> [parts |-> << [text |-> "Oi!"] >>]] >>]
MalformedJson == Throws("Unexpected end of JSON input")

(***************************************************************************)
(* State                                                                   *)
(*   now            Date.now()                                             *)
(*   rateLimitCache the module-level Map                                   *)
(*   inflight       the invocations suspended at an await: where, and the  *)
(*                  locals they still use                                  *)
(*   out            what the last step of an invocation consumed and       *)
(*                  produced (nothing after a Tick)                        *)
(* and, to state the claims, two histories the code does not keep:         *)
(*   solo           the Map as it would be had only IpA sent requests      *)
(*   window         per client key, the fixed window its requests opened:  *)
(*                  when it ends, how many requests reached the limiter in *)
(*                  it and how many of them were admitted                  *)
(*   log            where a specification keeps it: per instant, how many  *)
(*                  requests reached the limiter and how many of them it   *)
(*                  admitted                                               *)
(*   unswept        where a specification keeps it: the Map and the last   *)
(*                  verdict of the same limiter without its sweep, given   *)
(*                  the same requests                                      *)
(* and for a second serving instance running the same module:              *)
(*   peer           the module-level Map of that instance                  *)
(***************************************************************************)
Suspended(pc, origin, status) == [pc |-> pc, origin |-> origin, status |-> status]

NoRecord == [t |-> "none"]
MapGet(cache, key) == IF key \in DOMAIN cache THEN cache[key] ELSE NoRecord

Out(stage, method, origin, ipHeader, input, seen, verdict, soloVerdict, resp, call) ==
    [stage |-> stage, method |-> method, origin |-> origin, ipHeader |-> ipHeader,
     input |-> input, seen |-> seen, verdict |-> verdict, soloVerdict |-> soloVerdict,
     resp |-> resp, call |-> call]

Idle == Out("idle", "", JUndef, JUndef, JUndef, NoRecord, "none", "none", NoResp, NoCall)

Verdict(limited, ok) == IF ~limited THEN "none" ELSE IF ok THEN "admitted" ELSE "rejected"

\* the window of key after one more of its requests reached the limiter at t
Counted(w, key, t, ok) ==
    LET live == {k \in DOMAIN w : t <= w[k].until}
        one == IF ok THEN 1 ELSE 0
    IN  [k \in live \cup {key} |->
            IF k # key THEN w[k]
            ELSE IF key \in live
              THEN [w[k] EXCEPT !.n = @ + 1, !.admitted = @ + one]
              ELSE [n |-> 1, admitted |-> one, until |-> t + RATE_LIMIT_WINDOW]]

\* no log is kept
NoLog == [on |-> FALSE]
\* no limiter is run alongside
NoReference == [on |-> FALSE]

\* f with d added at instant t
Bump(f, t, d) ==
    [x \in DOMAIN f \cup {t} |->
        (IF x \in DOMAIN f THEN f[x] ELSE 0) + (IF x = t THEN d ELSE 0)]

\* the log after a request reached the limiter at t
Logged(l, t, ok) ==
    [on |-> TRUE, sent |-> Bump(l.sent, t, 1),
     admitted |-> Bump(l.admitted, t, IF ok THEN 1 ELSE 0)]

\* the state a new EnvolveAIDemoCoreV2 starts with, lines 794-807
NewState ==
    [phase |-> 1, messagesSent |-> 0, isActive |-> FALSE, isTransitioning |-> FALSE]

\* what a step of the page reports: the method, the instance, whether its
\* guards let it pass, and what the API call it resumed from had given
Did(op, self, passed, result) ==
    [op |-> op, self |-> self, passed |-> passed, result |-> result]

Nothing == Did("none", 0, FALSE, JUndef)

\* the page after n constructions of EnvolveAIDemoCoreV2 on it: init() has
\* loaded the scenario, resetDemoState (1519-1531) has left the chat with
\* its date separator only and the input disabled
Constructed(n) ==
    /\ SIMULATION_RUNNING = FALSE
    /\ state = [i \in 1..n |-> NewState]
    /\ conversationHistory = [i \in 1..n |-> << >>]
    /\ chatContainer = << >>
    /\ messageInput = [disabled |-> TRUE]
    /\ calls = EmptyBag
    /\ did = Nothing

Init ==
    /\ now = 0
    /\ rateLimitCache = << >>
    /\ inflight = EmptyBag
    /\ out = Idle
    /\ solo = << >>
    /\ window = << >>
    /\ peer = << >>
    /\ log = NoLog
    /\ unswept = NoReference
    /\ Constructed(1)

\* the same, the log kept
InitLogged ==
    /\ now = 0
    /\ rateLimitCache = << >>
    /\ inflight = EmptyBag
    /\ out = Idle
    /\ solo = << >>
    /\ window = << >>
    /\ peer = << >>
    /\ log = [on |-> TRUE, sent |-> << >>, admitted |-> << >>]
    /\ unswept = NoReference
    /\ Constructed(1)

\* the same, the limiter without the sweep run alongside
InitReference ==
    /\ now = 0
    /\ rateLimitCache = << >>
    /\ inflight = EmptyBag
    /\ out = Idle
    /\ solo = << >>
    /\ window = << >>
    /\ peer = << >>
    /\ log = NoLog
    /\ unswept = [on |-> TRUE, cache |-> << >>, ok |-> TRUE]
    /\ Constructed(1)

\* time passes
Tick ==
    /\ now + ClockStep <= MaxNow
    /\ now' = now + ClockStep
    /\ out' = Idle
    /\ UNCHANGED <<rateLimitCache, inflight, solo, window, peer, log, unswept, pageVars>>

\* a millisecond passes
TickFine ==
    /\ now >= ClockStep
    /\ now % ClockStep < FineSteps
    /\ now + 1 <= MaxNow
    /\ now' = now + 1
    /\ out' = Idle
    /\ UNCHANGED <<rateLimitCache, inflight, solo, window, peer, log, unswept, pageVars>>

\* lines 23-49: a request arrives and the handler runs to its first await
fetch(method, origin, ipHeader, cap) ==
    LET r == FetchSync(rateLimitCache, method, origin, ipHeader, now)
        key == RateKey(ClientIP(ipHeader))
        mine == r.limited /\ ipHeader = IpA
        s == IF mine THEN checkRateLimit(solo, ClientIP(ipHeader), now)
                     ELSE [ok |-> TRUE, cache |-> solo]
        ok == r.resp = NoResp
    IN  /\ ok => BagCardinality(inflight) < cap
        /\ \A k \in DOMAIN r.cache : r.cache[k].count <= MaxCount
        /\ rateLimitCache' = r.cache
        /\ solo' = s.cache
        /\ inflight' = IF ok THEN inflight (+) SetToBag({Suspended("body", origin, 0)})
                             ELSE inflight
        /\ window' = IF r.limited THEN Counted(window, key, now, ok) ELSE window
        /\ out' = Out("request", method, origin, ipHeader, JUndef,
                      IF r.limited THEN MapGet(rateLimitCache, key) ELSE NoRecord,
                      Verdict(r.limited, ok), Verdict(mine, s.ok), r.resp, NoCall)
        /\ log' = IF log.on /\ r.limited THEN Logged(log, now, ok) ELSE log
        /\ unswept' = IF unswept.on /\ r.limited
                         THEN LET u == checkRateLimitNoSweep(unswept.cache,
                                                             ClientIP(ipHeader), now)
                              IN  [on |-> TRUE, cache |-> u.cache, ok |-> u.ok]
                         ELSE unswept
        /\ UNCHANGED <<now, peer, pageVars>>

\* the same request arriving at the second instance while its Map is the
\* first instance's
fetchPeerShared(method, origin, ipHeader, cap) ==
    LET r == FetchSync(rateLimitCache, method, origin, ipHeader, now)
        key == RateKey(ClientIP(ipHeader))
        ok == r.resp = NoResp
    IN  /\ ok => BagCardinality(inflight) < cap
        /\ \A k \in DOMAIN r.cache : r.cache[k].count <= MaxCount
        /\ rateLimitCache' = r.cache
        /\ inflight' = IF ok THEN inflight (+) SetToBag({Suspended("body", origin, 0)})
                             ELSE inflight
        /\ window' = IF r.limited THEN Counted(window, key, now, ok) ELSE window
        /\ out' = Out("peer", method, origin, ipHeader, JUndef,
                      IF r.limited THEN MapGet(rateLimitCache, key) ELSE NoRecord,
                      Verdict(r.limited, ok), "none", r.resp, NoCall)
        /\ UNCHANGED <<now, solo, peer, log, unswept, pageVars>>

\* lines 19-49 in the second instance: the request is routed to an isolate
\* that loaded the module on its own, so line 19 gave it its own Map; the
\* handler runs to its first await against that Map
fetchPeer(method, origin, ipHeader, cap) ==
    LET r == FetchSync(peer, method, origin, ipHeader, now)
        key == RateKey(ClientIP(ipHeader))
        ok == r.resp = NoResp
    IN  /\ ok => BagCardinality(inflight) < cap
        /\ \A k \in DOMAIN r.cache : r.cache[k].count <= MaxCount
        /\ peer' = r.cache
        /\ inflight' = IF ok THEN inflight (+) SetToBag({Suspended("body", origin, 0)})
                             ELSE inflight
        /\ window' = IF r.limited THEN Counted(window, key, now, ok) ELSE window
        /\ out' = Out("peer", method, origin, ipHeader, JUndef,
                      IF r.limited THEN MapGet(peer, key) ELSE NoRecord,
                      Verdict(r.limited, ok), "none", r.resp, NoCall)
        /\ UNCHANGED <<now, rateLimitCache, solo, log, unswept, pageVars>>

Leave(req) == inflight (-) SetToBag({req})
Move(req, pc, status) == Leave(req) (+) SetToBag({Suspended(pc, req.origin, status)})

\* what a step after the first await reports
Later(stage, req, input, resp, call) ==
    Out(stage, "POST", req.origin, JUndef, input, NoRecord, "none", "none", resp, call)

\* the body read giving the budget back when it answers an error
AwaitRequestJsonRefund(req, parsed) ==
    LET r == FetchBody(parsed)
    IN  /\ BagIn(req, inflight) /\ req.pc = "body"
        /\ inflight' = IF r.resp = NoResp THEN Move(req, "upstream", 0) ELSE Leave(req)
        /\ out' = Later("body", req, parsed, r.resp, r.call)
        /\ rateLimitCache' =
              IF r.resp = NoResp THEN rateLimitCache
              ELSE [k \in DOMAIN rateLimitCache |->
                       [rateLimitCache[k] EXCEPT !.count = @ - 1]]
        /\ UNCHANGED <<now, solo, window, peer, log, unswept, pageVars>>

\* lines 49-83: request.json() settles; the handler answers or calls upstream
AwaitRequestJson(req, parsed) ==
    LET r == FetchBody(parsed)
    IN  /\ BagIn(req, inflight) /\ req.pc = "body"
        /\ inflight' = IF r.resp = NoResp THEN Move(req, "upstream", 0) ELSE Leave(req)
        /\ out' = Later("body", req, parsed, r.resp, r.call)
        /\ UNCHANGED <<now, rateLimitCache, solo, window, peer, log, unswept, pageVars>>

\* the upstream fetch called again when it failed
AwaitUpstreamFetchRetry(req, result) ==
    /\ BagIn(req, inflight) /\ req.pc = "upstream"
    /\ IF result.t = "throw" \/ ~Ok(result.v)
         THEN /\ inflight' = inflight
              /\ out' = Later("upstream", req, result, NoResp,
                              [t |-> "call",
                               body |-> GeminiRequest(ValidBody, ValidBody.message.v)])
         ELSE /\ inflight' = Move(req, "json", result.v)
              /\ out' = Later("upstream", req, result, NoResp, NoCall)
    /\ UNCHANGED <<now, rateLimitCache, solo, window, peer, log, unswept, pageVars>>

\* lines 73-86: the upstream fetch settles
AwaitUpstreamFetch(req, result) ==
    /\ BagIn(req, inflight) /\ req.pc = "upstream"
    /\ IF result.t = "throw"
         THEN /\ inflight' = Leave(req)
              /\ out' = Later("upstream", req, result, CatchAll(result.message), NoCall)
         ELSE /\ inflight' = Move(req, IF Ok(result.v) THEN "json" ELSE "text", result.v)
              /\ out' = Later("upstream", req, result, NoResp, NoCall)
    /\ UNCHANGED <<now, rateLimitCache, solo, window, peer, log, unswept, pageVars>>

\* lines 87-92: the body of an upstream error has been read, or the read failed
AwaitErrorText(req, errorText) ==
    /\ BagIn(req, inflight) /\ req.pc = "text"
    /\ inflight' = Leave(req)
    /\ out' = Later("text", req, [errorText EXCEPT !.status = req.status],
                    IF errorText.t = "throw" THEN CatchAll(errorText.message)
                                             ELSE UpstreamError(req.status, errorText.v),
                    NoCall)
    /\ UNCHANGED <<now, rateLimitCache, solo, window, peer, log, unswept, pageVars>>

\* lines 95-98: the body of an upstream success has been parsed, or not
AwaitGeminiJson(req, data) ==
    /\ BagIn(req, inflight) /\ req.pc = "json"
    /\ inflight' = Leave(req)
    /\ out' = Later("json", req, data,
                    IF data.t = "throw" THEN CatchAll(data.message)
                                        ELSE Success(data.v, req.origin),
                    NoCall)
    /\ UNCHANGED <<now, rateLimitCache, solo, window, peer, log, unswept, pageVars>>

Requests == BagToSet(inflight)
ParsedData == [t |-> "json", v |-> GeminiData]

\* the handler with every kind of request, body and upstream answer, within
\* one window; the requests that reach the limiter come from one client
\* identifier
Next ==
    \/ \E m \in Methods, o \in Origins : fetch(m, o, IpA, MaxInFlight)
    \/ \E m \in Methods \ {"POST"}, o \in Origins : fetch(m, o, JNull, MaxInFlight)
    \/ \E req \in Requests, b \in Bodies : AwaitRequestJson(req, b)
    \/ \E req \in Requests, st \in UpstreamStatuses : AwaitUpstreamFetch(req, JNum(st))
    \/ \E req \in Requests : AwaitUpstreamFetch(req, TransportFailure)
    \/ \E req \in Requests, e \in ErrorTexts \cup {BrokenBody} : AwaitErrorText(req, e)
    \/ \E req \in Requests : AwaitGeminiJson(req, ParsedData)
    \/ \E req \in Requests : AwaitGeminiJson(req, MalformedJson)

Spec == Init /\ [][Next]_vars

\* the limiter over time: well-formed chat turns of two client identifiers
\* (IpA, and the callers without the header), the clock advancing
NextLimiter ==
    \/ \E ip \in IpHeaders : fetch("POST", ListedOrigin, ip, MaxInFlight)
    \/ \E req \in Requests : AwaitRequestJson(req, ValidBody)
    \/ \E req \in Requests : AwaitUpstreamFetch(req, JNum(200))
    \/ \E req \in Requests : AwaitGeminiJson(req, ParsedData)
    \/ Tick

SpecLimiter == Init /\ [][NextLimiter]_vars

\* concurrent invocations for one client identifier, interleaved at every await
NextConcurrent ==
    \/ fetch("POST", ListedOrigin, IpA, MaxConcurrent)
    \/ \E req \in Requests : AwaitRequestJson(req, ValidBody)
    \/ \E req \in Requests, st \in {200, 429} : AwaitUpstreamFetch(req, JNum(st))
    \/ \E req \in Requests, e \in ErrorTexts : AwaitErrorText(req, e)
    \/ \E req \in Requests : AwaitGeminiJson(req, ParsedData)
    \/ Tick

SpecConcurrent == Init /\ [][NextConcurrent]_vars

\* the limiter followed by the millisecond around the end of a window: the
\* requests of one client identifier, all well-formed, their bodies still on
\* the way
NextBurst ==
    \/ fetch("POST", ListedOrigin, IpA, MaxWaiting)
    \/ Tick
    \/ TickFine

SpecBurst == InitLogged /\ [][NextBurst]_vars

\* the limiter and the limiter without the sweep, given the same requests
\* of two client identifiers over time
NextReference ==
    \/ \E ip \in IpHeaders : fetch("POST", ListedOrigin, ip, MaxWaiting)
    \/ Tick

SpecReference == InitReference /\ [][NextReference]_vars

\* one client identifier whose requests are routed to two instances
NextInstances ==
    \/ fetch("POST", ListedOrigin, IpA, MaxInFlight)
    \/ fetchPeer("POST", ListedOrigin, IpA, MaxInFlight)
    \/ \E req \in Requests : AwaitRequestJson(req, ValidBody)
    \/ \E req \in Requests : AwaitUpstreamFetch(req, JNum(200))
    \/ \E req \in Requests : AwaitGeminiJson(req, ParsedData)
    \/ Tick

SpecInstances == Init /\ [][NextInstances]_vars

(***************************************************************************)
(* The caller: GeminiController of assets/js/script.js in proxy mode       *)
(* (useProxy = true, apiUrl the worker's URL), served from the listed      *)
(* origin.  A caller-side string is the sequence of its units.             *)
(***************************************************************************)
\* buildSystemPrompt(scenario, phase, userBehavior): some non-empty text
SystemPrompt == Text(4)
UserMessages == {Text(2), Text(5)}

\* sendMessage, lines 2332-2336, with conversationHistory = [] (it grows
\* only after a successful answer)
Messages(userMessage) ==
    << [role |-> "user", content |-> SystemPrompt],
       [role |-> "user", content |-> userMessage] >>

\* callGeminiAPI, lines 2443-2448
requestBody(messages) ==
    [contents |-> [i \in 1..Len(messages) |->
                      [parts |-> << [text |-> messages[i].content] >>,
                       role |-> IF messages[i].role = "assistant" THEN "model"
                                                                  ELSE "user"]]]

\* what request.json() of the worker resolves with for the body
\* JSON.stringify(rb): the properties rb has, and undefined for the others
ParseStringified(rb) ==
    Obj(IF "message" \in DOMAIN rb THEN JStr(rb.message) ELSE JUndef,
        IF "contents" \in DOMAIN rb THEN JArr(rb.contents) ELSE JUndef)

\* the bodies the page's chat turns arrive with
PageBodies == {ParseStringified(requestBody(Messages(m))) : m \in UserMessages}

\* the page talking to the worker: the browser's preflight (the request
\* carries Content-Type: application/json), then the POST of callGeminiAPI
NextPage ==
    \/ fetch("OPTIONS", ListedOrigin, IpA, MaxInFlight)
    \/ fetch("POST", ListedOrigin, IpA, MaxInFlight)
    \/ \E req \in Requests, b \in PageBodies : AwaitRequestJson(req, b)
    \/ Tick

SpecPage == Init /\ [][NextPage]_vars

\* a read of a body that has arrived settles: request.json(),
\* geminiResponse.text(), geminiResponse.json()
Settle ==
    \/ \E req \in Requests : AwaitRequestJson(req, ValidBody)
    \/ \E req \in Requests, e \in ErrorTexts : AwaitErrorText(req, e)
    \/ \E req \in Requests : AwaitGeminiJson(req, ParsedData)

\* the handler in front of an upstream that answers when it likes, or never:
\* lines 73-83 pass no AbortSignal and race the call against no timer, so the
\* await of line 73 resumes only when the upstream answers or the transport
\* fails
NextStalled ==
    \/ fetch("POST", ListedOrigin, IpA, MaxInFlight)
    \/ Settle
    \/ \E req \in Requests, st \in {200, 503} : AwaitUpstreamFetch(req, JNum(st))
    \/ \E req \in Requests : AwaitUpstreamFetch(req, TransportFailure)
    \/ Tick

\* the runtime resumes every invocation whose awaited read has settled; the
\* upstream is under no obligation
SpecStalled == Init /\ [][NextStalled]_vars /\ WF_vars(Settle)

(***************************************************************************)
(* Claims                                                                  *)
(***************************************************************************)
\* the key the request reported in out was counted under
KeyOfOut == RateKey(ClientIP(out.ipHeader))
KeyA == RateKey(IpA.v)
KeyUnknown == RateKey(<<"unknown">>)
\* the last step ran the limiter for a request
Limited == out.stage = "request" /\ out.verdict # "none"

RateLimitBody == [error |-> "Rate limit excedido. Tente novamente em alguns segundos."]

\* C1: once 30 requests of a client identifier have been counted in its
\* window, every further request of that window is rejected with 429 and a
\* JSON error carrying the rate-limit message; so no window admits more than
\* 30 requests
C1_BudgetEnforced ==
    /\ \A k \in DOMAIN window : window[k].admitted <= RATE_LIMIT_REQUESTS
    /\ (Limited /\ window[KeyOfOut].n > RATE_LIMIT_REQUESTS) =>
          /\ out.verdict = "rejected"
          /\ out.resp.t = "response"
          /\ out.resp.status = 429
          /\ out.resp.body = RateLimitBody

\* the 31st request of a window has just been answered 429, 30 were admitted
C1_Witness ==
    /\ Limited /\ out.verdict = "rejected"
    /\ window[KeyOfOut].n = RATE_LIMIT_REQUESTS + 1
    /\ window[KeyOfOut].admitted = RATE_LIMIT_REQUESTS
    /\ out.resp.status = 429

\* C2: a request that finds its client's record with resetAt in the past is
\* admitted, whatever the count of that record, and leaves a fresh record with
\* count 1 and resetAt = now + window
C2_WindowReset ==
    (Limited /\ out.seen # NoRecord /\ now > out.seen.resetAt) =>
        /\ out.verdict = "admitted"
        /\ out.resp = NoResp
        /\ KeyOfOut \in DOMAIN rateLimitCache
        /\ rateLimitCache[KeyOfOut] = [count |-> 1, resetAt |-> now + RATE_LIMIT_WINDOW]

\* a request has just replaced an expired record whose count was above the budget
C2_Witness ==
    /\ Limited /\ out.seen # NoRecord /\ now > out.seen.resetAt
    /\ out.seen.count > RATE_LIMIT_REQUESTS
    /\ out.verdict = "admitted"
    /\ rateLimitCache[KeyOfOut].count = 1

\* the record a client's next request would find still counting
LiveRecord(cache, key) ==
    IF key \in DOMAIN cache /\ ~(now > cache[key].resetAt) THEN cache[key] ELSE NoRecord

\* C3 as stated: the verdicts of IpA's requests and IpA's record are what they
\* would be had the other client sent nothing
C3_AsStated ==
    /\ (Limited /\ out.ipHeader = IpA) => out.verdict = out.soloVerdict
    /\ MapGet(rateLimitCache, KeyA) = MapGet(solo, KeyA)

\* C3, amended: the verdicts of IpA's requests and IpA's unexpired record are
\* what they would be had the other client sent nothing (the other client's
\* requests may delete IpA's record once its resetAt has passed)
C3_Isolation ==
    /\ (Limited /\ out.ipHeader = IpA) => out.verdict = out.soloVerdict
    /\ LiveRecord(rateLimitCache, KeyA) = LiveRecord(solo, KeyA)

\* IpA's 30th request is admitted while the other client is over its budget
C3_Witness ==
    /\ Limited /\ out.ipHeader = IpA /\ out.verdict = "admitted"
    /\ rateLimitCache[KeyA].count = RATE_LIMIT_REQUESTS
    /\ KeyUnknown \in DOMAIN rateLimitCache
    /\ rateLimitCache[KeyUnknown].count > RATE_LIMIT_REQUESTS
    /\ ~(now > rateLimitCache[KeyUnknown].resetAt)

\* the Origin header is neither an entry of the allow-list nor contains the
\* loopback marker
Foreign(origin) ==
    /\ origin \notin {ALLOWED_ORIGINS[i] : i \in 1..Len(ALLOWED_ORIGINS)}
    /\ ~(origin.t = "str" /\ \E i \in 1..Len(origin.v) : origin.v[i] = "127.0.0.1")

Answered == out.resp # NoResp

\* C4 as stated: a request with a foreign origin is answered 403 whatever its
\* method, OPTIONS excepted
C4_AsStated ==
    (out.stage = "request" /\ Foreign(out.origin) /\ out.method # "OPTIONS") =>
        (Answered /\ out.resp.status = 403)

\* C4, amended: a POST with a foreign origin is answered 403; OPTIONS is
\* answered 204 and any other method 405, whatever the origin
C4_OriginGating ==
    out.stage = "request" =>
        /\ (out.method = "POST" /\ Foreign(out.origin)) =>
              (Answered /\ out.resp.status = 403
               /\ out.resp.body = [error |-> "Origem não autorizada"])
        /\ out.method = "OPTIONS" => (Answered /\ out.resp.status = 204)
        /\ out.method \notin {"POST", "OPTIONS"} => (Answered /\ out.resp.status = 405)

\* a POST without an Origin header, and one from a foreign site, answered 403
C4_Witness ==
    /\ out.stage = "request" /\ out.method = "POST"
    /\ out.origin \in {JNull, EvilOrigin}
    /\ Answered /\ out.resp.status = 403

HasStringMessage(body) ==
    body.t = "obj" /\ body.message.t = "str"

\* C6: a parsed body without a message, or with a message that is no string,
\* is answered 400 "Mensagem inválida" and makes no upstream call
C6_InvalidInput ==
    (out.stage = "body" /\ out.input.t # "throw" /\ ~HasStringMessage(out.input)) =>
        /\ Answered
        /\ out.resp.status = 400
        /\ out.resp.body = [error |-> "Mensagem inválida"]
        /\ out.call = NoCall

\* the message of the request the last step forwarded, and the text forwarded
Forwarded == out.stage = "body" /\ out.call # NoCall
ForwardedFromMessage == Forwarded /\ ~Truthy(out.input.contents)
MessageIn == out.input.message.v
TextOut == out.call.body.contents.v[1].parts[1].text

UpstreamErrorAnswered == out.stage = "text" /\ out.input.t = "text"

\* C8: an upstream error is answered with the upstream's status, the detail
\* "Rate limit da API" for 429 and the generic "Erro interno" otherwise, and
\* the answer is the same whatever the text of the upstream's error body
C8_ErrorSanitized ==
    UpstreamErrorAnswered =>
        /\ Answered
        /\ out.resp.status = out.input.status
        /\ out.resp.body =
              [error |-> "Erro ao processar com IA",
               details |-> IF out.input.status = 429 THEN "Rate limit da API"
                                                     ELSE "Erro interno"]
        /\ \A e \in ErrorTexts : out.resp = UpstreamError(out.input.status, e.v)

\* an upstream 429 has been passed on with its fixed detail
C8_Witness ==
    /\ UpstreamErrorAnswered
    /\ out.input.status = 429
    /\ out.resp.status = 429
    /\ out.resp.body.details = "Rate limit da API"

\* C9: a step that handles an OPTIONS request answers 204 with no body and
\* the permissive CORS headers, leaves the rate-limit Map as it was, suspends
\* no invocation and calls no upstream
C9_Preflight ==
    [][(out'.stage = "request" /\ out'.method = "OPTIONS") =>
          /\ out'.resp.t = "response"
          /\ out'.resp.status = 204
          /\ out'.resp.body = JNull
          /\ out'.resp.headers.ACAO = Star
          /\ out'.resp.headers.ACAM = "POST, OPTIONS"
          /\ out'.resp.headers.ACAH = "Content-Type"
          /\ rateLimitCache' = rateLimitCache
          /\ inflight' = inflight
          /\ out'.call = NoCall]_vars

\* an OPTIONS request of a foreign origin answered 204 while its client is
\* over the budget
C9_Witness ==
    /\ out.stage = "request" /\ out.method = "OPTIONS"
    /\ out.origin = EvilOrigin /\ out.ipHeader = IpA
    /\ out.resp.status = 204
    /\ KeyA \in DOMAIN rateLimitCache
    /\ rateLimitCache[KeyA].count > RATE_LIMIT_REQUESTS

\* C10: whatever invocations are suspended at their awaits, each held record
\* counts exactly the requests that reached the limiter in its window, and
\* the number admitted among them is min(count, 30)
C10_AtomicCount ==
    /\ DOMAIN window = DOMAIN rateLimitCache
    /\ \A k \in DOMAIN window :
          /\ rateLimitCache[k].count = window[k].n
          /\ rateLimitCache[k].resetAt = window[k].until
          /\ window[k].admitted =
                IF window[k].n < RATE_LIMIT_REQUESTS THEN window[k].n
                                                     ELSE RATE_LIMIT_REQUESTS

\* two invocations of the same client suspended at different awaits while a
\* third request of that client has been rejected
C10_Witness ==
    /\ BagCardinality(inflight) = 2
    /\ \E r1, r2 \in Requests : r1.pc # r2.pc
    /\ KeyA \in DOMAIN rateLimitCache
    /\ rateLimitCache[KeyA].count = RATE_LIMIT_REQUESTS + 1
    /\ window[KeyA].admitted = RATE_LIMIT_REQUESTS

\* the last step answered an upstream success whose body parsed
SuccessAnswered == out.stage = "json" /\ out.input.t = "json"

\* C11: when the upstream answered with a success status and its body parsed,
\* the caller gets status 200 with the upstream's payload as the body,
\* Access-Control-Allow-Origin equal to the request's origin, which passed the
\* origin check and is not "*", and the three hardening headers
C11_SuccessResponse ==
    SuccessAnswered =>
        /\ Answered
        /\ out.resp.status = 200
        /\ out.resp.body = out.input.v
        /\ out.resp.headers.ContentType = "application/json"
        /\ out.resp.headers.ACAO = out.origin
        /\ out.resp.headers.ACAO # Star
        /\ ~Foreign(out.origin)
        /\ out.resp.headers.XContentTypeOptions = "nosniff"
        /\ out.resp.headers.XFrameOptions = "DENY"
        /\ out.resp.headers.XXSSProtection = "1; mode=block"

\* the reply of the upstream handed to a caller of the listed origin
C11_Witness ==
    /\ SuccessAnswered
    /\ out.origin = ListedOrigin
    /\ out.resp.status = 200
    /\ out.resp.body = GeminiData
    /\ out.resp.headers.ACAO = ListedOrigin

\* the statuses the handler itself gives to an error
OwnErrorStatuses == {400, 403, 405, 429, 500}

\* resp is one JSON response with an error string whose status is one of the
\* handler's own or, after the body of an upstream error was read, the
\* upstream's
ErrorAnswer(o) ==
    /\ o.resp.t = "response"
    /\ "ContentType" \in DOMAIN o.resp.headers
    /\ o.resp.headers.ContentType = "application/json"
    /\ "error" \in DOMAIN o.resp.body
    /\ o.resp.body.error \in STRING
    /\ o.resp.status \in OwnErrorStatuses
                          \cup (IF o.stage = "text" THEN {o.input.status} ELSE {})

\* resp is the reply of the upstream, whole
FullReply(o) ==
    /\ o.stage = "json" /\ o.input.t = "json"
    /\ o.resp.t = "response"
    /\ o.resp.status = 200
    /\ o.resp.body = o.input.v

\* C12 as stated: whatever the method, a response of the handler is the AI
\* reply or a JSON error with its status
C12_AsStated ==
    Answered => (FullReply(out) \/ ErrorAnswer(out))

\* C12, amended: every step of an invocation ends in a response or at the
\* next await, never in an error thrown to the runtime; a response ends the
\* invocation, so an invocation answers once; and the response to any request
\* but an OPTIONS preflight (answered 204 without a body) is the reply of the
\* upstream or one JSON error with a status among 400, 403, 405, 429, 500 and
\* the upstream's
C12_FailureSemantics ==
    [][out'.stage # "idle" =>
          /\ out'.resp.t \in {"none", "response"}
          /\ (out'.resp # NoResp /\ out'.method # "OPTIONS") =>
                (FullReply(out') \/ ErrorAnswer(out'))
          /\ (out'.resp # NoResp /\ out'.method = "OPTIONS") =>
                (out'.resp.status = 204 /\ out'.resp.body = JNull)
          /\ out'.stage = "request" =>
                BagCardinality(inflight') =
                    BagCardinality(inflight) + (IF out'.resp = NoResp THEN 1 ELSE 0)
          /\ out'.stage # "request" =>
                BagCardinality(inflight') =
                    BagCardinality(inflight) - (IF out'.resp = NoResp THEN 0 ELSE 1)
          /\ out'.call # NoCall => out'.resp = NoResp]_vars

\* the upstream's body did not parse: the invocation ended with the 500 of
\* the catch-all and nothing is left suspended
C12_Witness ==
    /\ out.stage = "json" /\ out.input.t = "throw"
    /\ Answered /\ out.resp.status = 500
    /\ out.resp.body.error = "Erro interno do servidor"
    /\ inflight = EmptyBag

\* the last step handled a POST up to its first await
PostArrived == out.stage = "request" /\ out.method = "POST"

\* C13: a POST goes on to the limiter exactly when its Origin header equals
\* an entry of the allow-list or contains the loopback marker, and is
\* answered 403 otherwise, whatever requests came before; a POST without an
\* Origin header is answered 403
C13_OriginAdmission ==
    PostArrived =>
        /\ (out.verdict # "none") <=> ~Foreign(out.origin)
        /\ (Answered /\ out.resp.status = 403) <=> Foreign(out.origin)
        /\ Foreign(out.origin) => out.resp.body = [error |-> "Origem não autorizada"]
        /\ out.origin = JNull => (Answered /\ out.resp.status = 403)
        /\ out.verdict = "none" => out.seen = NoRecord

\* a POST whose origin is no entry of the list but contains the loopback
\* marker went on to the limiter and was admitted
C13_Witness ==
    /\ PostArrived
    /\ out.origin = LoopbackOrigin
    /\ ~ArrayIncludes(ALLOWED_ORIGINS, out.origin)
    /\ out.verdict = "admitted"
    /\ ~Answered

\* an invocation is suspended at the upstream call of line 73
WaitingUpstream == \E req \in Requests : req.pc = "upstream"

\* C14: a request that has reached the upstream call is eventually answered,
\* whether the upstream answers or not
C14_BoundedWait ==
    WaitingUpstream ~> (out.stage \in {"upstream", "text", "json"} /\ Answered)

\* the last step read the body of a chat turn of the page
PageTurnRead == out.stage = "body" /\ out.input \in PageBodies

\* C15: the body of every chat turn the page sends carries a string message,
\* passes the validation of the worker and is not answered 400
C15_BodyContract ==
    PageTurnRead =>
        /\ HasStringMessage(out.input)
        /\ ~(Answered /\ out.resp.status = 400)

\* two parsed bodies with the same message and the same contents
SameMessageAndContents(a, b) ==
    /\ a.t = "obj" /\ b.t = "obj"
    /\ a.message = b.message
    /\ a.contents = b.contents

\* C16: every payload sent upstream carries the generation parameters
\* temperature 0.7, maxOutputTokens 500, topP 0.95, topK 40, and is the
\* payload sent for any other body with the same message and contents
C16_ProxyOwnedConfig ==
    Forwarded =>
        /\ out.call.body.generationConfig =
              [temperature |-> "0.7", maxOutputTokens |-> 500,
               topP |-> "0.95", topK |-> 40]
        /\ DOMAIN out.call.body = {"contents", "generationConfig"}
        /\ \A b \in Bodies :
              SameMessageAndContents(b, out.input) => FetchBody(b).call = out.call

\* a body asking for its own generation parameters was forwarded with the
\* handler's
C16_Witness ==
    /\ Forwarded
    /\ "generationConfig" \in DOMAIN out.input
    /\ out.input.generationConfig.maxOutputTokens = 8192
    /\ out.call.body.generationConfig.maxOutputTokens = 500
    /\ \E b \in Bodies : b # out.input /\ SameMessageAndContents(b, out.input)

\* the records of key in both instances belong to the window of key: they
\* were opened by the requests that window counts
BothInWindow(k) ==
    /\ k \in DOMAIN rateLimitCache /\ k \in DOMAIN peer /\ k \in DOMAIN window
    /\ rateLimitCache[k].resetAt = window[k].until
    /\ peer[k].resetAt = window[k].until

AdmittedOf(rec) ==
    IF rec.count < RATE_LIMIT_REQUESTS THEN rec.count ELSE RATE_LIMIT_REQUESTS

\* C17: a request handled by one instance changes only that instance's Map;
\* each instance admits the request exactly when its own record of the client
\* counts at most 30; so when the client's requests of one window went to two
\* instances, the window admitted what both admitted, up to 2 x 30
C17_PerInstance ==
    [][/\ out'.stage = "request" => peer' = peer
       /\ out'.stage = "peer" => rateLimitCache' = rateLimitCache
       /\ out'.stage \notin {"request", "peer"} =>
             (peer' = peer /\ rateLimitCache' = rateLimitCache)
       /\ (out'.stage \in {"request", "peer"} /\ out'.verdict # "none") =>
             LET mine == IF out'.stage = "request" THEN rateLimitCache' ELSE peer'
                 k == RateKey(ClientIP(out'.ipHeader))
             IN  /\ k \in DOMAIN mine
                 /\ (out'.verdict = "admitted") <=> (mine[k].count <= RATE_LIMIT_REQUESTS)
       /\ \A k \in DOMAIN window' :
             BothInWindow(k)' =>
                 /\ window'[k].n = rateLimitCache'[k].count + peer'[k].count
                 /\ window'[k].admitted =
                       AdmittedOf(rateLimitCache'[k]) + AdmittedOf(peer'[k])
                 /\ window'[k].admitted <= 2 * RATE_LIMIT_REQUESTS]_vars

\* the second instance has just admitted the client's 60th request of one
\* window, the first instance having admitted 30
C17_Witness ==
    /\ out.stage = "peer" /\ out.verdict = "admitted"
    /\ BothInWindow(KeyA)
    /\ rateLimitCache[KeyA].count >= RATE_LIMIT_REQUESTS
    /\ peer[KeyA].count = RATE_LIMIT_REQUESTS
    /\ window[KeyA].admitted = 2 * RATE_LIMIT_REQUESTS

\* C18: the first check that fails answers, and nothing after it runs: a
\* method other than POST and OPTIONS is answered 405 and a POST of a foreign
\* origin 403, both without running the limiter, whatever the origin and the
\* count of the client; a POST of an allowed origin is answered 429 when the
\* limiter rejects it and otherwise goes on to read its body; a body that
\* does not parse is answered 500; and the upstream is called only from the
\* step that read a body with a non-empty string message, in an invocation
\* of an allowed origin, which then returns nothing yet
C18_PipelineOrder ==
    [][/\ out'.stage = "request" =>
             /\ out'.method \notin {"POST", "OPTIONS"} =>
                   /\ out'.resp.t = "response" /\ out'.resp.status = 405
                   /\ out'.verdict = "none"
                   /\ rateLimitCache' = rateLimitCache /\ inflight' = inflight
             /\ out'.method = "OPTIONS" =>
                   /\ out'.resp.t = "response" /\ out'.resp.status = 204
                   /\ out'.verdict = "none"
             /\ (out'.method = "POST" /\ Foreign(out'.origin)) =>
                   /\ out'.resp.t = "response" /\ out'.resp.status = 403
                   /\ out'.verdict = "none"
                   /\ rateLimitCache' = rateLimitCache /\ inflight' = inflight
             /\ (out'.method = "POST" /\ ~Foreign(out'.origin)) =>
                   /\ out'.verdict \in {"admitted", "rejected"}
                   /\ out'.verdict = "rejected" =>
                         /\ out'.resp.t = "response" /\ out'.resp.status = 429
                         /\ inflight' = inflight
                   /\ out'.verdict = "admitted" =>
                         /\ out'.resp = NoResp
                         /\ inflight' = inflight (+) SetToBag({Suspended("body", out'.origin, 0)})
             /\ out'.call = NoCall
       /\ out'.stage = "body" =>
             /\ out'.input.t = "throw" =>
                   /\ out'.resp.t = "response" /\ out'.resp.status = 500
                   /\ out'.call = NoCall
             /\ out'.call # NoCall =>
                   /\ HasStringMessage(out'.input)
                   /\ Len(out'.input.message.v) > 0
                   /\ ~Foreign(out'.origin)
                   /\ out'.resp = NoResp
                   /\ BagIn(Suspended("body", out'.origin, 0), inflight)
             /\ out'.call = NoCall => out'.resp.t = "response"
       /\ out'.stage \in {"upstream", "text", "json"} => out'.call = NoCall]_vars

\* a POST of a foreign origin answered 403 although its client is over the
\* budget of a window still open: the limiter was not asked
C18_Witness ==
    /\ PostArrived /\ out.origin = EvilOrigin /\ out.ipHeader = IpA
    /\ Answered /\ out.resp.status = 403
    /\ KeyA \in DOMAIN rateLimitCache
    /\ rateLimitCache[KeyA].count > RATE_LIMIT_REQUESTS
    /\ ~(now > rateLimitCache[KeyA].resetAt)

\* C19: a request that finds its client's record still counting, admitted or
\* rejected, leaves it with the count one higher and the same resetAt; the
\* resetAt of a held record differs from what it was only when the record
\* had expired and a fresh one took its place; and a rejected request leaves
\* the resetAt that the first request of its window set
C19_RejectionKeepsWindow ==
    [][/\ \A k \in DOMAIN rateLimitCache \cap DOMAIN rateLimitCache' :
             rateLimitCache'[k].resetAt # rateLimitCache[k].resetAt =>
                 /\ now > rateLimitCache[k].resetAt
                 /\ out'.stage = "request" /\ RateKey(ClientIP(out'.ipHeader)) = k
                 /\ rateLimitCache'[k] = [count |-> 1, resetAt |-> now + RATE_LIMIT_WINDOW]
       /\ (out'.stage = "request" /\ out'.verdict # "none") =>
             LET k == RateKey(ClientIP(out'.ipHeader))
             IN  /\ (k \in DOMAIN rateLimitCache /\ ~(now > rateLimitCache[k].resetAt)) =>
                       rateLimitCache'[k] =
                           [count |-> rateLimitCache[k].count + 1,
                            resetAt |-> rateLimitCache[k].resetAt]
                 /\ out'.verdict = "rejected" =>
                       /\ k \in DOMAIN rateLimitCache
                       /\ ~(now > rateLimitCache[k].resetAt)
                       /\ rateLimitCache'[k].resetAt = window'[k].until
                       /\ window'[k].until = window[k].until]_vars

\* a request rejected at the last instant of its window: the record counts
\* it and still ends at that instant
C19_Witness ==
    /\ Limited /\ out.verdict = "rejected"
    /\ out.seen # NoRecord
    /\ now = out.seen.resetAt
    /\ now > 0
    /\ rateLimitCache[KeyOfOut].resetAt = now
    /\ rateLimitCache[KeyOfOut].count = out.seen.count + 1
    /\ out.seen.count > RATE_LIMIT_REQUESTS

\* C20: right after a request ran the limiter at now, the Map holds the
\* record of that request's client and, for every client identifier it
\* holds, one record with resetAt >= now and count >= 1 that was opened by a
\* request of that client no longer than a window ago
C20_LazySweep ==
    Limited =>
        /\ KeyOfOut \in DOMAIN rateLimitCache
        /\ \A k \in DOMAIN rateLimitCache :
              /\ rateLimitCache[k].resetAt >= now
              /\ rateLimitCache[k].count >= 1
              /\ k \in DOMAIN window
              /\ window[k].n >= 1
              /\ window[k].until = rateLimitCache[k].resetAt
              /\ window[k].until - RATE_LIMIT_WINDOW >= now - RATE_LIMIT_WINDOW
              /\ window[k].until - RATE_LIMIT_WINDOW <= now

\* a request of the client without the header has just deleted the expired
\* record of IpA
C20_Witness ==
    /\ Limited /\ out.ipHeader = JNull
    /\ KeyA \notin DOMAIN rateLimitCache
    /\ KeyA \in DOMAIN solo
    /\ now > solo[KeyA].resetAt
    /\ KeyUnknown \in DOMAIN rateLimitCache

\* the last step handled a POST of an allowed origin that carried no
\* CF-Connecting-IP header
HeaderlessPost == PostArrived /\ ~Foreign(out.origin) /\ out.ipHeader = JNull

\* C21: a POST without the connecting-IP header is put to the limiter like
\* any other, under the key of the sentinel 'unknown': it is admitted while
\* that key's window has counted at most 30 requests and answered 429 after
\* that, so the window of the sentinel admits at most 30; and the requests
\* that carry the header get the verdicts they would get had no request
\* without it been sent
C21_SharedSentinel ==
    /\ HeaderlessPost =>
          /\ out.verdict \in {"admitted", "rejected"}
          /\ RateKey(<<"unknown">>) \in DOMAIN rateLimitCache
          /\ RateKey(<<"unknown">>) \in DOMAIN window
          /\ rateLimitCache[RateKey(<<"unknown">>)].count = window[RateKey(<<"unknown">>)].n
          /\ out.verdict = "admitted" <=>
                window[RateKey(<<"unknown">>)].n <= RATE_LIMIT_REQUESTS
          /\ out.verdict = "admitted" => out.resp = NoResp
          /\ out.verdict = "rejected" => (out.resp.t = "response" /\ out.resp.status = 429)
    /\ RateKey(<<"unknown">>) \in DOMAIN window =>
          window[RateKey(<<"unknown">>)].admitted <= RATE_LIMIT_REQUESTS
    /\ (PostArrived /\ ~Foreign(out.origin) /\ out.ipHeader = IpA) =>
          /\ out.verdict = out.soloVerdict
          /\ LiveRecord(rateLimitCache, KeyA) = LiveRecord(solo, KeyA)

\* the 31st request without the header of a window is answered 429 while
\* the client that carries the header has budget left
C21_Witness ==
    /\ HeaderlessPost /\ out.verdict = "rejected"
    /\ window[KeyUnknown].n = RATE_LIMIT_REQUESTS + 1
    /\ window[KeyUnknown].admitted = RATE_LIMIT_REQUESTS
    /\ KeyA \in DOMAIN rateLimitCache
    /\ rateLimitCache[KeyA].count < RATE_LIMIT_REQUESTS
    /\ ~(now > rateLimitCache[KeyA].resetAt)

\* the number of invocations suspended at pc
AtPc(bag, pc) ==
    BagCardinality([r \in {x \in BagToSet(bag) : x.pc = pc} |-> bag[r]])

One(cond) == IF cond THEN 1 ELSE 0

\* C22: the upstream is called only by the step that read the body of an
\* invocation, which takes that invocation from the body read to the wait
\* for the upstream; the settling of the upstream call takes it away from
\* there for good: a transport failure is answered 500 at once, an error
\* status leads to the read of the error body, whose step answers; neither
\* makes a call.  So no invocation calls the upstream twice.
C22_NoRetry ==
    [][/\ out'.call # NoCall =>
             /\ out'.stage = "body"
             /\ out'.resp = NoResp
             /\ AtPc(inflight', "body") = AtPc(inflight, "body") - 1
       /\ AtPc(inflight', "upstream") =
             AtPc(inflight, "upstream") + One(out'.call # NoCall)
                                        - One(out'.stage = "upstream")
       /\ AtPc(inflight', "body") > AtPc(inflight, "body") => out'.stage = "request"
       /\ out'.stage = "upstream" =>
             /\ out'.call = NoCall
             /\ out'.input.t = "throw" =>
                   /\ out'.resp.t = "response" /\ out'.resp.status = 500
                   /\ BagCardinality(inflight') = BagCardinality(inflight) - 1
             /\ (out'.input.t # "throw" /\ ~Ok(out'.input.v)) =>
                   AtPc(inflight', "text") = AtPc(inflight, "text") + 1
       /\ out'.stage = "text" =>
             /\ out'.call = NoCall
             /\ out'.resp.t = "response"
             /\ BagCardinality(inflight') = BagCardinality(inflight) - 1]_vars

\* the upstream call failed in transport: the invocation ended with 500 and
\* made no further call
C22_Witness ==
    /\ out.stage = "upstream" /\ out.input = TransportFailure
    /\ out.resp.t = "response" /\ out.resp.status = 500
    /\ out.call = NoCall
    /\ AtPc(inflight, "upstream") = 0

\* the last step saw request.json() reject, or the upstream fetch reject
FaultAfterAdmission ==
    /\ out.stage \in {"body", "upstream"}
    /\ out.input.t = "throw"

\* C23: when the body of an admitted POST does not parse, or the upstream
\* call fails in transport, the answer is 500 with error "Erro interno do
\* servidor" and the message of the exception; it is not 400, and the step
\* calls no upstream
C23_FaultsAre500 ==
    FaultAfterAdmission =>
        /\ out.resp.t = "response"
        /\ out.resp.status = 500
        /\ out.resp.status # 400
        /\ out.resp.body = [error |-> "Erro interno do servidor",
                            message |-> out.input.message]
        /\ out.call = NoCall

\* a body that is no JSON answered 500 with the parser's message, nothing
\* waiting for the upstream
C23_Witness ==
    /\ out.stage = "body" /\ out.input = ParseFailure
    /\ out.resp.status = 500
    /\ out.resp.body.message = "Unexpected token < in JSON at position 0"
    /\ out.call = NoCall
    /\ inflight = EmptyBag

\* the single turn the handler builds from a message
SingleTurn(message) ==
    JArr(<< [parts |-> << [text |-> Substring0(message, 1000)] >>] >>)

\* C24 as stated: the contents sent upstream is the contents of the body
\* whenever the body has that property, and the single turn built from the
\* message otherwise
C24_AsStated ==
    Forwarded =>
        /\ out.input.contents # JUndef => out.call.body.contents = out.input.contents
        /\ out.input.contents = JUndef =>
              out.call.body.contents = SingleTurn(out.input.message.v)

\* C24, amended: the contents sent upstream is the contents of the body when
\* that is truthy (an array, even an empty one), whatever the length of its
\* texts, and then no other message would have changed the payload; it is the
\* single turn built from the first 1000 characters of the message when the
\* contents is missing, null or the empty string
C24_PayloadContents ==
    Forwarded =>
        /\ Truthy(out.input.contents) =>
              /\ out.call.body.contents = out.input.contents
              /\ \A b \in Bodies :
                    (HasStringMessage(b) /\ Len(b.message.v) > 0
                     /\ b.contents = out.input.contents) =>
                        FetchBody(b).call = out.call
        /\ ~Truthy(out.input.contents) =>
              out.call.body.contents = SingleTurn(out.input.message.v)

\* a history whose text has 1001 characters went upstream as it came
C24_Witness ==
    /\ Forwarded
    /\ out.input.contents = LongHistory
    /\ Len(out.call.body.contents.v[1].parts[1].text) = 1001
    /\ out.call.body.contents = out.input.contents

\* what the record of key counts while its window is open, 0 otherwise
LiveCount(cache, key) ==
    IF key \in DOMAIN cache /\ ~(now > cache[key].resetAt) THEN cache[key].count ELSE 0

\* C25: a POST of an allowed origin leaves the count of its client's window
\* one higher, whether it is then answered 429 or goes on; no later step of
\* an invocation (the 500 of a body that does not parse, the 400 of an invalid
\* message, an upstream failure, the success) changes the Map; and a request
\* answered 204, 405 or 403 leaves the Map as it was
C25_BudgetByOutcome ==
    [][/\ out'.stage = "request" =>
             IF out'.method = "POST" /\ ~Foreign(out'.origin)
               THEN LET k == RateKey(ClientIP(out'.ipHeader))
                    IN  /\ k \in DOMAIN rateLimitCache'
                        /\ rateLimitCache'[k].count = LiveCount(rateLimitCache, k) + 1
                        /\ out'.resp = NoResp \/ out'.resp.status = 429
               ELSE /\ rateLimitCache' = rateLimitCache
                    /\ out'.resp.t = "response"
                    /\ out'.resp.status \in {204, 405, 403}
       /\ out'.stage \in {"body", "upstream", "text", "json"} =>
             rateLimitCache' = rateLimitCache]_vars

\* the only POST the limiter has counted was answered 400 for its message,
\* and the count stays at 1
C25_Witness ==
    /\ out.stage = "body"
    /\ out.resp.t = "response" /\ out.resp.status = 400
    /\ inflight = EmptyBag
    /\ KeyA \in DOMAIN rateLimitCache
    /\ rateLimitCache[KeyA].count = 1

RECURSIVE SumOver(_, _)
SumOver(f, S) ==
    IF S = {} THEN 0
    ELSE LET x == CHOOSE y \in S : TRUE IN f[x] + SumOver(f, S \ {x})

\* how many requests the limiter admitted at the instants from t to
\* t + 60 s, both included
AdmittedIn(t) ==
    SumOver(log.admitted, {x \in DOMAIN log.admitted : t <= x /\ x <= t + 60000})

\* 30 requests came at t and 30 at the next millisecond, where the limiter
\* opened a window: t was the last instant of the window before
BurstAround(t) ==
    /\ t \in DOMAIN log.sent /\ t + 1 \in DOMAIN log.sent
    /\ log.sent[t] = 30 /\ log.sent[t + 1] = 30
    /\ KeyA \in DOMAIN rateLimitCache
    /\ rateLimitCache[KeyA].resetAt = t + 1 + 60000

\* C26 as stated: 30 requests at the end of a window and 30 right after it
\* are all admitted, 60 within 60 s
C26_AsStated ==
    \A t \in DOMAIN log.sent : BurstAround(t) => AdmittedIn(t) = 60

\* C26, amended: the requests admitted at the instants of any 60 s are at
\* most 59, one less than twice the budget: a window starts with the
\* request that opens it, so 60 s that reach into the next window leave that
\* request out
C26_BurstBound ==
    \A t \in DOMAIN log.admitted : AdmittedIn(t) <= 2 * 30 - 1

\* 29 requests admitted at the last instant of a window and 30 at the next
\* millisecond: 59 within a millisecond
C26_Witness ==
    /\ Limited /\ out.verdict = "admitted"
    /\ now - 1 \in DOMAIN log.admitted
    /\ log.admitted[now - 1] = 29
    /\ log.admitted[now] = 30
    /\ AdmittedIn(now - 1) = 59

\* C27: given the same requests, the limiter and the limiter without the
\* sweep return the same verdict each time and hold the same record for
\* every client whose window is open; what the limiter without the sweep
\* holds besides has expired, and after the sweep no record is left for the
\* expiry test of line 122 to find expired
C27_SweepChangesNothing ==
    /\ Limited => out.verdict = Verdict(TRUE, unswept.ok)
    /\ DOMAIN rateLimitCache \subseteq DOMAIN unswept.cache
    /\ \A k \in DOMAIN unswept.cache :
          /\ LiveRecord(rateLimitCache, k) = LiveRecord(unswept.cache, k)
          /\ k \notin DOMAIN rateLimitCache => now > unswept.cache[k].resetAt
    /\ \A k \in DOMAIN cleanupRateLimit(rateLimitCache, now) :
          ~(now > cleanupRateLimit(rateLimitCache, now)[k].resetAt)

\* the request of one client has swept the expired record of the other,
\* which the limiter without the sweep still holds; the verdicts agree
C27_Witness ==
    /\ Limited /\ out.ipHeader = JNull
    /\ out.verdict = Verdict(TRUE, unswept.ok)
    /\ KeyA \notin DOMAIN rateLimitCache
    /\ KeyA \in DOMAIN unswept.cache
    /\ unswept.cache[KeyA].count > RATE_LIMIT_REQUESTS
    /\ now > unswept.cache[KeyA].resetAt


(***************************************************************************)
(* The page: EnvolveAIDemoCoreV2 and GeminiController of                   *)
(* assets/js/script.js.  The methods of the page run on one thread, each   *)
(* to completion between its awaits; an action is the code between two     *)
(* awaits of one execution.  A text is the sequence of its units.          *)
(***************************************************************************)
\* shouldTransitionToPhase2, line 1276
messageLimit == 10

InitialMessage == <<"Oi!">>
EndSimulation == <<"// END SIMULATION //">>
ReplyText == <<"reply">>

\* String.prototype.trim of line 1222: the value without its leading and
\* trailing white space
RECURSIVE TrimStart(_)
TrimStart(s) ==
    IF s # << >> /\ Head(s) = " " THEN TrimStart(Tail(s)) ELSE s

RECURSIVE TrimEnd(_)
TrimEnd(s) ==
    IF s # << >> /\ s[Len(s)] = " " THEN TrimEnd(SubSeq(s, 1, Len(s) - 1)) ELSE s

Trim(s) == TrimEnd(TrimStart(s))

\* what the input holds when a send is asked for
InputValues == {<< >>, <<" ">>, <<" ", "quanto", " ", "custa", " ">>}

\* what fetch(this.apiUrl, ...) of line 2461 settles with: a rejection, or a
\* response with its status and the value its json() gives
NetworkError == Throws("Failed to fetch")
Response(status, data) == [t |-> "response", status |-> status, data |-> data]

Candidates(text) ==
    [t |-> "obj", candidates |-> << [content |-> [parts |-> << [text |-> text] >>]] >>]
NoCandidates == [t |-> "obj"]
EmptyCandidates == [t |-> "obj", candidates |-> << >>]
NoContent == [t |-> "obj", candidates |-> << [finishReason |-> "SAFETY"] >>]
NoParts == [t |-> "obj", candidates |-> << [content |-> [role |-> "model"]] >>]

Responses ==
    {NetworkError}
      \cup {Response(st, NoCandidates) : st \in {429, 403, 400, 500}}
      \cup {Response(200, d) : d \in {Candidates(JStr(ReplyText)), Candidates(JUndef),
                                      NoCandidates, EmptyCandidates, NoContent,
                                      NoParts, ParseFailure}}

Returns(v) == [t |-> "return", v |-> v]

\* callGeminiAPI from line 2466 on, given what the fetch settled with
callGeminiAPI(response) ==
    IF response.t = "throw" THEN response
    ELSE IF ~(response.status >= 200 /\ response.status <= 299)
      THEN IF response.status = 429
             THEN Throws("Limite de requisicoes atingido. Aguarde alguns segundos.")
           ELSE IF response.status = 403
             THEN Throws("Acesso nao autorizado. Verifique a configuracao do proxy.")
           ELSE Throws("Erro ao processar")
    ELSE LET data == response.data
         IN  IF data.t = "throw" THEN data
             ELSE IF /\ "candidates" \in DOMAIN data
                     /\ Len(data.candidates) >= 1
                     /\ "content" \in DOMAIN data.candidates[1]
               THEN IF "parts" \in DOMAIN data.candidates[1].content
                      THEN Returns(data.candidates[1].content.parts[1].text)
                    ELSE Throws("Cannot read properties of undefined")
             ELSE Throws("Formato de resposta invalido da IA")

Turn(role, content) == [role |-> role, content |-> content]

\* a sendMessage that keeps the user's message when the call fails
sendMessageKeepUser(history, userMessage, result) ==
    IF result.t = "throw"
      THEN [history |-> Append(history, Turn("user", userMessage)), result |-> result]
      ELSE [history |-> history \o << Turn("user", userMessage),
                                      Turn("assistant", result.v) >>,
            result |-> result]

\* sendMessage from line 2339 on, given what callGeminiAPI gave: the
\* history left and what the method returns or throws
sendMessage(history, userMessage, result) ==
    IF result.t = "throw"
      THEN [history |-> history, result |-> result]
      ELSE [history |-> history \o << Turn("user", userMessage),
                                      Turn("assistant", result.v) >>,
            result |-> result]

\* a suspended execution: whose it is, the await it waits at, and the
\* message its sendMessage carries
Call(self, pc, userMessage) == [self |-> self, pc |-> pc, userMessage |-> userMessage]

Calls == BagToSet(calls)
Pending == BagCardinality(calls)
Without(call) == calls (-) SetToBag({call})
With(bag, call) == bag (+) SetToBag({call})

\* addMessage(type, text), lines 1360 on: one more message in the chat
addMessage(chat, type) == Append(chat, type)

\* resetSimulationState, lines 1141-1154, on the state of an instance
resetSimulationState(st) ==
    [st EXCEPT !.phase = 1, !.messagesSent = 0]

\* startAISimulation up to its first await (line 1117)
startAISimulation(self) ==
    /\ self \in DOMAIN state
    /\ IF SIMULATION_RUNNING \/ state[self].isActive \/ state[self].isTransitioning
         THEN /\ did' = Did("startAISimulation", self, FALSE, JUndef)
              /\ UNCHANGED <<SIMULATION_RUNNING, state, conversationHistory,
                             chatContainer, messageInput, calls>>
         ELSE /\ Pending < MaxPending
              \* line 1094 sets the flag, line 1143 clears it before the await
              /\ SIMULATION_RUNNING' = FALSE
              /\ state' = [state EXCEPT ![self] =
                             resetSimulationState([@ EXCEPT !.isActive = TRUE,
                                                            !.isTransitioning = TRUE])]
              /\ conversationHistory' = [conversationHistory EXCEPT ![self] = << >>]
              /\ chatContainer' = << >>
              /\ calls' = With(calls, Call(self, "delay1500", << >>))
              /\ did' = Did("startAISimulation", self, TRUE, JUndef)
              /\ UNCHANGED messageInput
    /\ UNCHANGED workerVars

\* startAISimulation after the delay: sendInitialMessage up to its await of
\* gemini.sendMessage (line 1190)
sendInitialMessage(call) ==
    /\ call \in Calls /\ call.pc = "delay1500"
    /\ chatContainer' = addMessage(chatContainer, "user")
    /\ calls' = With(Without(call), Call(call.self, "initial", InitialMessage))
    /\ did' = Did("sendInitialMessage", call.self, TRUE, JUndef)
    /\ UNCHANGED <<SIMULATION_RUNNING, state, conversationHistory, messageInput>>
    /\ UNCHANGED workerVars

\* an exception in the try block of startAISimulation: the catch of line
\* 1132 with handleSimulationError (1547-1561), then the finally
startAISimulationFails(call) ==
    /\ call \in Calls /\ call.pc = "delay1500"
    /\ state' = [state EXCEPT ![call.self].isActive = FALSE,
                              ![call.self].isTransitioning = FALSE]
    /\ calls' = Without(call)
    /\ did' = Did("handleSimulationError", call.self, TRUE, JUndef)
    /\ UNCHANGED <<SIMULATION_RUNNING, conversationHistory, chatContainer, messageInput>>
    /\ UNCHANGED workerVars

\* transitionToPhase2 up to its first await (line 1319), on the state st:
\* the state left and whether an execution is suspended
transitionToPhase2(st) ==
    IF st.phase # 1 \/ st.isTransitioning
      THEN [state |-> st, suspended |-> FALSE]
      ELSE [state |-> [st EXCEPT !.isTransitioning = TRUE], suspended |-> TRUE]

\* sendUserMessage with value in the input, up to its first await; cap
\* bounds the messages one run of the simulation counts, and waiting the
\* executions suspended when one more message is accepted
sendUserMessage(self, value, cap, waiting) ==
    /\ self \in DOMAIN state
    /\ messageInput.disabled => value = << >>
    /\ LET messageText == Trim(value)
           counted == [state[self] EXCEPT !.messagesSent = @ + 1]
           t == transitionToPhase2(counted)
       IN  IF state[self].isTransitioning \/ messageText = << >>
             THEN /\ did' = Did("sendUserMessage", self, FALSE, JUndef)
                  /\ UNCHANGED <<state, chatContainer, calls>>
             ELSE /\ state[self].messagesSent < cap
                  /\ Pending < waiting
                  /\ chatContainer' = addMessage(chatContainer, "user")
                  /\ did' = Did("sendUserMessage", self, TRUE, JUndef)
                  /\ IF counted.messagesSent >= messageLimit
                       THEN /\ state' = [state EXCEPT ![self] = t.state]
                            /\ calls' = IF t.suspended
                                          THEN With(calls, Call(self, "delay3000", << >>))
                                          ELSE calls
                       ELSE /\ state' = [state EXCEPT ![self] = counted]
                            /\ calls' = With(calls, Call(self, "reply", messageText))
    /\ UNCHANGED <<SIMULATION_RUNNING, conversationHistory, messageInput>>
    /\ UNCHANGED workerVars

\* finalizePhase1, lines 1563-1571
finalizePhase1(self) ==
    /\ self \in DOMAIN state
    /\ LET t == transitionToPhase2(state[self])
       IN  IF state[self].phase # 1
             THEN /\ did' = Did("finalizePhase1", self, FALSE, JUndef)
                  /\ UNCHANGED <<state, chatContainer, calls>>
             ELSE /\ Len(chatContainer) < MaxChat
                  /\ Pending < MaxPending
                  /\ chatContainer' = addMessage(chatContainer, "user")
                  /\ state' = [state EXCEPT ![self] = t.state]
                  /\ calls' = IF t.suspended
                                THEN With(calls, Call(self, "delay3000", << >>))
                                ELSE calls
                  /\ did' = Did("finalizePhase1", self, TRUE, JUndef)
    /\ UNCHANGED <<SIMULATION_RUNNING, conversationHistory, messageInput>>
    /\ UNCHANGED workerVars

\* transitionToPhase2 after delay(3000): lines 1320-1327
AwaitDelay3000(call) ==
    /\ call \in Calls /\ call.pc = "delay3000"
    /\ state' = [state EXCEPT ![call.self].phase = 2]
    /\ calls' = With(Without(call), Call(call.self, "delay2000", << >>))
    /\ did' = Did("transitionToPhase2", call.self, TRUE, JUndef)
    /\ UNCHANGED <<SIMULATION_RUNNING, conversationHistory, chatContainer, messageInput>>
    /\ UNCHANGED workerVars

\* transitionToPhase2 after delay(2000): up to the await of line 1329
AwaitDelay2000(call) ==
    /\ call \in Calls /\ call.pc = "delay2000"
    /\ calls' = With(Without(call), Call(call.self, "end", EndSimulation))
    /\ did' = Did("transitionToPhase2", call.self, TRUE, JUndef)
    /\ UNCHANGED <<SIMULATION_RUNNING, state, conversationHistory, chatContainer,
                   messageInput>>
    /\ UNCHANGED workerVars

\* the method whose await of gemini.sendMessage a call waits at
Caller(pc) ==
    IF pc = "initial" THEN "sendInitialMessage"
    ELSE IF pc = "reply" THEN "getAIResponse"
    ELSE "transitionToPhase2"

\* the fetch of callGeminiAPI settles with response: the rest of
\* callGeminiAPI and of sendMessage, then the rest of the method that
\* awaited it, which adds the reply or its own fallback to the chat:
\* sendInitialMessage 1197-1205 and startAISimulation 1124-1138,
\* getAIResponse 1291-1302, transitionToPhase2 1336-1356
AwaitSendMessage(call, response) ==
    /\ call \in Calls /\ call.pc \in {"initial", "reply", "end"}
    /\ LET r == sendMessage(conversationHistory[call.self], call.userMessage,
                            callGeminiAPI(response))
       IN  /\ conversationHistory' = [conversationHistory EXCEPT ![call.self] = r.history]
           /\ did' = Did(Caller(call.pc), call.self, TRUE, r.result)
    /\ chatContainer' = addMessage(chatContainer, "bot")
    /\ calls' = Without(call)
    /\ IF call.pc = "reply"
         THEN UNCHANGED <<state, messageInput>>
         ELSE /\ messageInput' = [messageInput EXCEPT !.disabled = FALSE]
              /\ state' = [state EXCEPT ![call.self].isTransitioning = FALSE]
    /\ UNCHANGED SIMULATION_RUNNING
    /\ UNCHANGED workerVars

\* a timer of the page fires
Timer ==
    \/ \E call \in Calls : sendInitialMessage(call)
    \/ \E call \in Calls : AwaitDelay3000(call)
    \/ \E call \in Calls : AwaitDelay2000(call)

\* one EnvolveAIDemoCoreV2 on the page, a few messages, and every way the
\* API call can end
NextChat ==
    \/ startAISimulation(1)
    \/ \E call \in Calls : startAISimulationFails(call)
    \/ \E value \in InputValues : sendUserMessage(1, value, MaxTurns, MaxPending)
    \/ finalizePhase1(1)
    \/ Timer
    \/ \E call \in Calls, response \in Responses : AwaitSendMessage(call, response)

SpecChat == Init /\ [][NextChat]_vars


\* the message the sendMessage awaited by a method of the page carries
SentBy(op) ==
    IF op = "sendInitialMessage" THEN InitialMessage
    ELSE IF op = "transitionToPhase2" THEN EndSimulation
    ELSE Trim(<<" ", "quanto", " ", "custa", " ">>)

\* the history is user/assistant pairs
InPairs(history) ==
    /\ Len(history) % 2 = 0
    /\ \A i \in DOMAIN history :
         history[i].role = IF i % 2 = 1 THEN "user" ELSE "assistant"

\* the step ends a sendMessage
SendMessageEnds == did'.result # JUndef

\* C28: sendMessage appends the user message and the reply, as one pair,
\* when the API call succeeds, and leaves conversationHistory as it was and
\* throws what the call threw when it fails (429, 403, another status, a
\* response of the wrong shape, a network error); no other step adds to the
\* history, so at every moment, also with sends overlapping, the history is a
\* sequence of user/assistant pairs
C28_HistoryOnSuccess ==
    /\ [](\A i \in DOMAIN conversationHistory : InPairs(conversationHistory[i]))
    /\ [][\A i \in DOMAIN conversationHistory :
            LET h == conversationHistory[i]
            IN  IF SendMessageEnds /\ did'.self = i
                  THEN IF did'.result.t = "return"
                         THEN conversationHistory'[i] =
                                h \o << Turn("user", SentBy(did'.op)),
                                        Turn("assistant", did'.result.v) >>
                         ELSE /\ did'.result.t = "throw"
                              /\ conversationHistory'[i] = h
                  ELSE conversationHistory'[i] \in {h, << >>}]_vars

\* a send has failed with 429 while another is still in flight, and the
\* history holds the one pair of the send that succeeded before
C28_Witness ==
    /\ did.op = "getAIResponse"
    /\ did.result = Throws("Limite de requisicoes atingido. Aguarde alguns segundos.")
    /\ \E c \in Calls : c.pc = "reply"
    /\ Len(conversationHistory[1]) = 2
    /\ conversationHistory[1][1] = Turn("user", InitialMessage)


\* two EnvolveAIDemoCoreV2 on one page (initDemo of lines 1948-1962 run
\* again, or a second construction): they share window, the chat and the
\* input of the document, and each has its own state and GeminiController
InitShared ==
    /\ now = 0
    /\ rateLimitCache = << >>
    /\ inflight = EmptyBag
    /\ out = Idle
    /\ solo = << >>
    /\ window = << >>
    /\ peer = << >>
    /\ log = NoLog
    /\ unswept = NoReference
    /\ Constructed(2)

\* starts asked of either instance, in any order with the steps of the runs
NextSimulation ==
    \/ \E self \in 1..2 : startAISimulation(self)
    \/ \E call \in Calls : startAISimulationFails(call)
    \/ \E call \in Calls : sendInitialMessage(call)
    \/ \E call \in Calls, response \in Responses : AwaitSendMessage(call, response)

SpecSimulation == InitShared /\ [][NextSimulation]_vars

\* the executions of startAISimulation that have passed the guards and have
\* not finished
Running == AtPc(calls, "delay1500") + AtPc(calls, "initial")

\* C29: at most one execution of startAISimulation is in progress on the
\* page at any time, on one instance or on two sharing the window
C29_SingleRun == Running <= 1


\* the API call of a suspended sendMessage resolves or rejects
Outcomes == {NetworkError, Response(200, Candidates(JStr(ReplyText)))}

Settles ==
    \E call \in Calls, response \in Outcomes : AwaitSendMessage(call, response)

\* one EnvolveAIDemoCoreV2 and a visitor who may go on past the message
\* limit; every timer fires and every API call settles
NextAnswer ==
    \/ startAISimulation(1)
    \/ \E value \in InputValues : sendUserMessage(1, value, MaxSent, MaxAwaited)
    \/ finalizePhase1(1)
    \/ Timer
    \/ Settles

SpecAnswer ==
    Init /\ [][NextAnswer]_vars /\ WF_vars(Timer) /\ WF_vars(Settles)

\* sendUserMessage has just accepted a message
Accepted == did.op = "sendUserMessage" /\ did.passed

\* the last message of the chat is a bot message
BotSpokeLast ==
    chatContainer # << >> /\ chatContainer[Len(chatContainer)] = "bot"

\* C30: every message sendUserMessage accepts, in phase 1 or in phase 2 and
\* whatever messagesSent is, is eventually followed by a bot message in the
\* chat, every API call settling
C30_Answered == Accepted ~> BotSpokeLast

====
